---- MODULE Spec2Model ----
(***************************************************************************)
(* Promise / future / packaged_task / async and the ThreadPool snippet of  *)
(* the CppConcurrency notes, as state machines.                            *)
(*                                                                         *)
(*   SpecPromise  : one std::promise (handles pr, pr2), its shared state   *)
(*                  and the paired std::future, as in test() and the       *)
(*                  demonstration cases 1..6.                              *)
(*   SpecPool     : ThreadPool<T>::enqueue called by one thread, and the   *)
(*                  pool's worker() loops.                                 *)
(*   SpecAsync    : operation(): std::async(std::launch::async, ...) calls *)
(*                  whose futures are dropped, run on the same pool.       *)
(*   SpecDeferred : std::async(std::launch::deferred, foo, ...) and the    *)
(*                  wait()/get() calls on its future.                      *)
(*   SpecTask     : my_task, the example packaged_task implementation,     *)
(*                  its operator() and the future of its promise.          *)
(*   SpecAsyncGet : SpecAsync plus fut.get() on the async future;          *)
(*                  SpecAsyncFair adds fair scheduling.                    *)
(*   SpecShared   : a promise whose future became a shared_future with     *)
(*                  copies read by several threads.                        *)
(*   SpecReaders  : a program using any one kind of future, for what the  *)
(*                  destructor of each kind does.                          *)
(*   SpecFan      : the providers demonstration: several threads, each     *)
(*                  making its own shared state ready.                     *)
(***************************************************************************)
EXTENDS Integers, Sequences, FiniteSets, TLC

(***************************************************************************)
(* Bounds                                                                  *)
(***************************************************************************)
MaxValue == 2
MaxCalls == 2
MaxTasks == 3
MaxWorkers == 2
MaxReaders == 2
MaxWriters == 3

Values == 1..MaxValue

VARIABLES
    slot,         \* result stored in the shared state
    ready,        \* shared state made ready
    readerTaken,  \* a future has been obtained from the promise
    handle,       \* pr, pr2: "unborn" | "owner" | "moved" | "dead"
    werr,         \* error raised by the last promise operation
    rpc,          \* the future: "none" | "idle" | "inWait" | "inGet" | "consumed" | "destroyed"
    got,          \* what fut.get() returned or raised
    waited,       \* history: a fut.wait() has returned
    firstWrite,   \* history: handle and outcome of the first successful set
    nSet,         \* history: number of set_value / set_exception calls
    nGetFuture,   \* history: number of get_future calls
    refcnt,       \* references to the shared state
    nFree         \* history: how many times the shared state was destroyed

promiseVars == <<slot, ready, readerTaken, handle, werr, rpc, got, waited,
                 firstWrite, nSet, nGetFuture, refcnt, nFree>>

VARIABLES
    adaptor,      \* how tasks_ is built: "queue" (front/pop) or "stack" (top/pop)
    nWorkers,     \* size of workers_
    tasks_,       \* pending packaged_tasks, in push order
    mutex_,       \* holder of mutex_: Unlocked, Main or a worker
    wpc,          \* worker: "off" | "lock" | "locked" | "waiting" | "dequeued" | "running"
    cur,          \* worker: the task it moved out of tasks_ (0: none)
    cpc,          \* calling thread: "idle" | "lock" | "push" | "notify" | "hasFuture"
    nSub,         \* number of tasks handed to enqueue so far; the last one is nSub
    tag,          \* future of task t comes from std::async(std::launch::async, ...)
    execCount,    \* how many times task t's callable was started
    taskReady,    \* shared state of task t is ready
    taskSlot,     \* result stored in the shared state of task t
    deqBy,        \* history: workers that moved task t out of tasks_
    deqOrder,     \* history: tasks in the order they were dequeued
    doneOrder     \* history: tasks in the order they completed

poolVars == <<adaptor, nWorkers, tasks_, mutex_, wpc, cur, cpc, nSub, tag,
              execCount, taskReady, taskSlot, deqBy, deqOrder, doneOrder>>

VARIABLES
    dpc,          \* thread holding the deferred future: "start" | "idle" | "running" | "returning" | "consumed" | "destroyed"
    dop,          \* the call in progress on the deferred future: "none" | "wait" | "get"
    dstate,       \* deferred shared state: "none" | "deferred" | "running" | "ready"
    dExec,        \* how many times foo was executed
    dSlot,        \* result stored in the deferred shared state
    dGot,         \* what get() on the deferred future returned
    worked,       \* the caller did its own timeConsumingTask(5) before asking
    nDCalls,      \* history: number of wait()/get() calls on the deferred future
    holder,       \* thread that owns the deferred future
    runner        \* history: thread that executed foo (-1: nobody)

deferredVars == <<dpc, dop, dstate, dExec, dSlot, dGot, worked, nDCalls,
                  holder, runner>>

VARIABLES
    tpc,          \* my_task: "none" | "idle" | "running" (inside operator())
    tExec,        \* how many times fn was called
    tErr,         \* what the last operator() call raised to its caller
    tThrown,      \* history: fn has thrown
    nInvoke       \* history: number of operator() calls

taskVars == <<tpc, tExec, tErr, tThrown, nInvoke>>

VARIABLES
    spc,          \* copy r of the shared_future: "none" | "idle" | "inWait" | "inGet"
    sgot,         \* history: what each get() on copy r returned or raised, in order
    sn            \* history: number of wait()/get() calls on copy r

sharedVars == <<spc, sgot, sn>>

VARIABLES
    fpc,          \* provider thread i: "none" | "start" | "running" | "done"
    fslot,        \* result stored in shared state i
    fready,       \* shared state i is ready
    ferr,         \* what provider i's set raised
    mphase,       \* main: "wait" | "get" | "done"
    midx,         \* main: the future it is at
    mgot          \* main: what f_i.get() returned

fanVars == <<fpc, fslot, fready, ferr, mphase, midx, mgot>>

VARIABLES
    cgot          \* what fut.get() on the future of task t returned

asyncVars == <<cgot>>

VARIABLES
    qpc,          \* thread t on its copy of the deferred shared_future: "none" | "idle" | "running" | "blocked"
    qop,          \* the call thread t is in: "none" | "wait" | "get"
    qn,           \* history: number of wait()/get() calls of thread t
    qgot          \* history: what each get() of thread t returned or raised

dsVars == <<qpc, qop, qn, qgot>>

VARIABLES
    stop          \* shutdown of the pool was requested

shutVars == <<stop>>

VARIABLES
    child,        \* the task that task t started from inside its callable (0: none)
    nInner        \* number of tasks started from inside a callable

nestVars == <<child, nInner>>

lateVars == <<dsVars, shutVars, nestVars>>

extVars == <<taskVars, sharedVars, fanVars, asyncVars, lateVars>>

vars == <<promiseVars, poolVars, deferredVars, extVars>>

(***************************************************************************)
(* Shared state contents                                                   *)
(***************************************************************************)
Absent == [kind |-> "absent", val |-> 0, err |-> "none"]

Value(v) == [kind |-> "value", val |-> v, err |-> "none"]

Failure(e, p) == [kind |-> "failure", val |-> p, err |-> e]

BrokenPromise == Failure("BrokenWriter", 0)

Handles == {"pr", "pr2"}

NoWrite == [by |-> "nobody", out |-> Absent]

(***************************************************************************)
(* std::promise<int> pr;                                                    *)
(***************************************************************************)
NewPromise ==
    /\ slot = Absent
    /\ ready = FALSE
    /\ readerTaken = FALSE
    /\ handle = [h \in Handles |-> IF h = "pr" THEN "owner" ELSE "unborn"]
    /\ werr = "none"
    /\ rpc = "none"
    /\ got = Absent
    /\ waited = FALSE
    /\ firstWrite = NoWrite
    /\ nSet = 0
    /\ nGetFuture = 0
    /\ refcnt = 1
    /\ nFree = 0

(* release: a handle gives up its reference to the shared state; if this  *)
(* was the last such reference, the shared state is destroyed              *)
ReleaseState ==
    /\ refcnt' = refcnt - 1
    /\ nFree' = IF refcnt = 1 THEN nFree + 1 ELSE nFree

(* variant: hands out a future on every call *)
get_future_again(h) ==
    /\ handle[h] = "owner"
    /\ nGetFuture < MaxCalls
    /\ nGetFuture' = nGetFuture + 1
    /\ werr' = "none"
    /\ readerTaken' = TRUE
    /\ rpc' = "idle"
    /\ refcnt' = refcnt + 1
    /\ UNCHANGED <<slot, ready, handle, got, waited, firstWrite, nSet, nFree>>
    /\ UNCHANGED <<poolVars, deferredVars, extVars>>

(* auto fut = pr.get_future();  only one future may be obtained *)
get_future(h) ==
    /\ handle[h] = "owner"
    /\ nGetFuture < MaxCalls
    /\ nGetFuture' = nGetFuture + 1
    /\ IF readerTaken
         THEN /\ werr' = "ReaderAlreadyRetrieved"
              /\ UNCHANGED <<readerTaken, rpc, refcnt>>
         ELSE /\ werr' = "none"
              /\ readerTaken' = TRUE
              /\ rpc' = "idle"
              /\ refcnt' = refcnt + 1
    /\ UNCHANGED <<slot, ready, handle, got, waited, firstWrite, nSet, nFree>>
    /\ UNCHANGED <<poolVars, deferredVars, extVars>>

(* variant: stores the result even when the state is already ready *)
MakeReady_overwrite(h, outcome) ==
    /\ handle[h] = "owner"
    /\ nSet < MaxCalls
    /\ nSet' = nSet + 1
    /\ werr' = "none"
    /\ slot' = outcome
    /\ ready' = TRUE
    /\ firstWrite' = IF ready THEN firstWrite ELSE [by |-> h, out |-> outcome]
    /\ UNCHANGED <<readerTaken, handle, rpc, got, waited, nGetFuture, refcnt, nFree>>
    /\ UNCHANGED <<poolVars, deferredVars, extVars>>

(* make ready: store the result, mark the state ready; one-shot *)
MakeReady(h, outcome) ==
    /\ handle[h] = "owner"
    /\ nSet < MaxCalls
    /\ nSet' = nSet + 1
    /\ IF ready
         THEN /\ werr' = "AlreadySatisfied"
              /\ UNCHANGED <<slot, ready, firstWrite>>
         ELSE /\ werr' = "none"
              /\ slot' = outcome
              /\ ready' = TRUE
              /\ firstWrite' = [by |-> h, out |-> outcome]
    /\ UNCHANGED <<readerTaken, handle, rpc, got, waited, nGetFuture, refcnt, nFree>>
    /\ UNCHANGED <<poolVars, deferredVars, extVars>>

set_value(h, v) == MakeReady(h, Value(v))

set_exception(h, p) == MakeReady(h, Failure("CallableFailure", p))

(* variant: the source handle keeps the shared state (a copy, not a move) *)
MovePromise_copy(from, to) ==
    /\ handle[from] = "owner"
    /\ handle[to] = "unborn"
    /\ handle' = [handle EXCEPT ![to] = "owner"]
    /\ werr' = "none"
    /\ UNCHANGED <<slot, ready, readerTaken, rpc, got, waited, firstWrite, nSet, nGetFuture, refcnt, nFree>>
    /\ UNCHANGED <<poolVars, deferredVars, extVars>>

(* std::promise<int> pr2(std::move(pr)); *)
MovePromise(from, to) ==
    /\ handle[from] = "owner"
    /\ handle[to] = "unborn"
    /\ handle' = [handle EXCEPT ![from] = "moved", ![to] = "owner"]
    /\ werr' = "none"
    /\ UNCHANGED <<slot, ready, readerTaken, rpc, got, waited, firstWrite, nSet, nGetFuture, refcnt, nFree>>
    /\ UNCHANGED <<poolVars, deferredVars, extVars>>

(* variant: release without abandon *)
DestroyPromise_release(h) ==
    /\ handle[h] \in {"owner", "moved"}
    /\ handle' = [handle EXCEPT ![h] = "dead"]
    /\ werr' = "none"
    /\ UNCHANGED <<slot, ready, readerTaken, rpc, got, waited, firstWrite, nSet, nGetFuture>>
    /\ IF handle[h] = "owner" THEN ReleaseState ELSE UNCHANGED <<refcnt, nFree>>
    /\ UNCHANGED <<poolVars, deferredVars, extVars>>

(* variant: abandon whenever the state is not ready, future obtained or not *)
DestroyPromise_abandon(h) ==
    /\ handle[h] \in {"owner", "moved"}
    /\ handle' = [handle EXCEPT ![h] = "dead"]
    /\ werr' = "none"
    /\ IF handle[h] = "owner" /\ ~ready
         THEN /\ slot' = BrokenPromise
              /\ ready' = TRUE
         ELSE UNCHANGED <<slot, ready>>
    /\ UNCHANGED <<readerTaken, rpc, got, waited, firstWrite, nSet, nGetFuture>>
    /\ IF handle[h] = "owner" THEN ReleaseState ELSE UNCHANGED <<refcnt, nFree>>
    /\ UNCHANGED <<poolVars, deferredVars, extVars>>

(* ~promise: release; abandon when active and neither value nor exception *)
(* variant: the destructor stores broken promise over a stored result *)
DestroyPromise_clobber(h) ==
    /\ handle[h] \in {"owner", "moved"}
    /\ handle' = [handle EXCEPT ![h] = "dead"]
    /\ werr' = "none"
    /\ IF handle[h] = "owner" /\ readerTaken
         THEN /\ slot' = BrokenPromise
              /\ ready' = TRUE
         ELSE UNCHANGED <<slot, ready>>
    /\ UNCHANGED <<readerTaken, rpc, got, waited, firstWrite, nSet, nGetFuture>>
    /\ IF handle[h] = "owner" THEN ReleaseState ELSE UNCHANGED <<refcnt, nFree>>
    /\ UNCHANGED <<poolVars, deferredVars, extVars>>

DestroyPromise(h) ==
    /\ handle[h] \in {"owner", "moved"}
    /\ handle' = [handle EXCEPT ![h] = "dead"]
    /\ werr' = "none"
    /\ IF handle[h] = "owner" /\ readerTaken /\ ~ready
         THEN /\ slot' = BrokenPromise
              /\ ready' = TRUE
         ELSE UNCHANGED <<slot, ready>>
    /\ UNCHANGED <<readerTaken, rpc, got, waited, firstWrite, nSet, nGetFuture>>
    /\ IF handle[h] = "owner" THEN ReleaseState ELSE UNCHANGED <<refcnt, nFree>>
    /\ UNCHANGED <<poolVars, deferredVars, extVars>>

(* fut.wait() *)
WaitCall ==
    /\ rpc = "idle"
    /\ rpc' = "inWait"
    /\ UNCHANGED <<slot, ready, readerTaken, handle, werr, got, waited, firstWrite, nSet, nGetFuture, refcnt, nFree>>
    /\ UNCHANGED <<poolVars, deferredVars, extVars>>

(* variant: wait() returns without the state being ready *)
WaitReturn_nowait ==
    /\ rpc = "inWait"
    /\ rpc' = "idle"
    /\ waited' = TRUE
    /\ UNCHANGED <<slot, ready, readerTaken, handle, werr, got, firstWrite, nSet, nGetFuture, refcnt, nFree>>
    /\ UNCHANGED <<poolVars, deferredVars, extVars>>

WaitReturn ==
    /\ rpc = "inWait"
    /\ ready
    /\ rpc' = "idle"
    /\ waited' = TRUE
    /\ UNCHANGED <<slot, ready, readerTaken, handle, werr, got, firstWrite, nSet, nGetFuture, refcnt, nFree>>
    /\ UNCHANGED <<poolVars, deferredVars, extVars>>

(* fut.get(): waits, then returns the value or raises the stored exception *)
GetCall ==
    /\ rpc = "idle"
    /\ rpc' = "inGet"
    /\ UNCHANGED <<slot, ready, readerTaken, handle, werr, got, waited, firstWrite, nSet, nGetFuture, refcnt, nFree>>
    /\ UNCHANGED <<poolVars, deferredVars, extVars>>

(* variant: returns whatever the slot holds without waiting *)
GetReturn_nowait ==
    /\ rpc = "inGet"
    /\ rpc' = "consumed"
    /\ got' = slot
    /\ UNCHANGED <<slot, ready, readerTaken, handle, werr, waited, firstWrite, nSet, nGetFuture, refcnt, nFree>>
    /\ UNCHANGED <<poolVars, deferredVars, extVars>>

GetReturn ==
    /\ rpc = "inGet"
    /\ ready
    /\ rpc' = "consumed"
    /\ got' = slot
    /\ UNCHANGED <<slot, ready, readerTaken, handle, werr, waited, firstWrite, nSet, nGetFuture, refcnt, nFree>>
    /\ UNCHANGED <<poolVars, deferredVars, extVars>>

(* ~future of a promise: never blocks *)
(* variant: the destructor waits for the state to become ready *)
DestroyFuture_blocks ==
    /\ rpc \in {"idle", "consumed"}
    /\ ready
    /\ rpc' = "destroyed"
    /\ UNCHANGED <<slot, ready, readerTaken, handle, werr, got, waited, firstWrite, nSet, nGetFuture>>
    /\ ReleaseState
    /\ UNCHANGED <<poolVars, deferredVars, extVars>>

DestroyFuture ==
    /\ rpc \in {"idle", "consumed"}
    /\ rpc' = "destroyed"
    /\ UNCHANGED <<slot, ready, readerTaken, handle, werr, got, waited, firstWrite, nSet, nGetFuture>>
    /\ ReleaseState
    /\ UNCHANGED <<poolVars, deferredVars, extVars>>

(***************************************************************************)
(* ThreadPool<T>                                                           *)
(***************************************************************************)
Unlocked == -1

Main == 0

Tasks == 1..MaxTasks

WorkerIds == 1..MaxWorkers

FooResult == 42

(* value the callable of task t returns *)
TaskResult(t) == FooResult + t

(* tasks_ is declared std::queue but read with top(): the snippet builds   *)
(* either with front() or with tasks_ a std::stack; adaptor is that build. *)
Top(q) == IF adaptor = "queue" THEN q[1] ELSE q[Len(q)]

Pop(q) == IF adaptor = "queue" THEN SubSeq(q, 2, Len(q)) ELSE SubSeq(q, 1, Len(q) - 1)

Waiting == {w \in WorkerIds : wpc[w] = "waiting"}

(* ThreadPool(numThreads): workers_ started, nothing queued *)
NewPool ==
    /\ adaptor \in {"queue", "stack"}
    /\ nWorkers \in 1..MaxWorkers
    /\ tasks_ = << >>
    /\ mutex_ = Unlocked
    /\ wpc = [w \in WorkerIds |-> IF w <= nWorkers THEN "lock" ELSE "off"]
    /\ cur = [w \in WorkerIds |-> 0]
    /\ cpc = "idle"
    /\ nSub = 0
    /\ tag = [t \in Tasks |-> FALSE]
    /\ execCount = [t \in Tasks |-> 0]
    /\ taskReady = [t \in Tasks |-> FALSE]
    /\ taskSlot = [t \in Tasks |-> Absent]
    /\ deqBy = [t \in Tasks |-> {}]
    /\ deqOrder = << >>
    /\ doneOrder = << >>

(* no pool constructed *)
NoPool ==
    /\ adaptor = "queue"
    /\ nWorkers = 0
    /\ tasks_ = << >>
    /\ mutex_ = Unlocked
    /\ wpc = [w \in WorkerIds |-> "off"]
    /\ cur = [w \in WorkerIds |-> 0]
    /\ cpc = "idle"
    /\ nSub = 0
    /\ tag = [t \in Tasks |-> FALSE]
    /\ execCount = [t \in Tasks |-> 0]
    /\ taskReady = [t \in Tasks |-> FALSE]
    /\ taskSlot = [t \in Tasks |-> Absent]
    /\ deqBy = [t \in Tasks |-> {}]
    /\ deqOrder = << >>
    /\ doneOrder = << >>

(* enqueue(task): std::future<T> res = task.get_future(); *)
enqueue_call ==
    /\ cpc = "idle"
    /\ nSub < MaxTasks
    /\ nSub' = nSub + 1
    /\ cpc' = "lock"
    /\ UNCHANGED <<adaptor, nWorkers, tasks_, mutex_, wpc, cur, tag,
                   execCount, taskReady, taskSlot, deqBy, deqOrder, doneOrder>>
    /\ UNCHANGED <<promiseVars, deferredVars, extVars>>

(* std::async(std::launch::async, f): a task pushed into the pool; the     *)
(* returned future is the one whose destructor blocks                      *)
async_call ==
    /\ cpc = "idle"
    /\ nSub < MaxTasks
    /\ nSub' = nSub + 1
    /\ tag' = [tag EXCEPT ![nSub + 1] = TRUE]
    /\ cpc' = "lock"
    /\ UNCHANGED <<adaptor, nWorkers, tasks_, mutex_, wpc, cur,
                   execCount, taskReady, taskSlot, deqBy, deqOrder, doneOrder>>
    /\ UNCHANGED <<promiseVars, deferredVars, extVars>>

(* std::lock_guard<std::mutex> lock(mutex_); *)
enqueue_lock ==
    /\ cpc = "lock"
    /\ mutex_ = Unlocked
    /\ mutex_' = Main
    /\ cpc' = "push"
    /\ UNCHANGED <<adaptor, nWorkers, tasks_, wpc, cur, nSub, tag,
                   execCount, taskReady, taskSlot, deqBy, deqOrder, doneOrder>>
    /\ UNCHANGED <<promiseVars, deferredVars, extVars>>

(* tasks_.push(std::move(task)); } *)
enqueue_push ==
    /\ cpc = "push"
    /\ mutex_ = Main
    /\ tasks_' = Append(tasks_, nSub)
    /\ mutex_' = Unlocked
    /\ cpc' = "notify"
    /\ UNCHANGED <<adaptor, nWorkers, wpc, cur, nSub, tag,
                   execCount, taskReady, taskSlot, deqBy, deqOrder, doneOrder>>
    /\ UNCHANGED <<promiseVars, deferredVars, extVars>>

(* variant: enqueue returns without notifying *)
enqueue_notify_none ==
    /\ cpc = "notify"
    /\ cpc' = "hasFuture"
    /\ UNCHANGED <<adaptor, nWorkers, tasks_, mutex_, wpc, cur, nSub, tag,
                   execCount, taskReady, taskSlot, deqBy, deqOrder, doneOrder>>
    /\ UNCHANGED <<promiseVars, deferredVars, extVars>>

(* cv_.notify_one(); return res; *)
enqueue_notify ==
    /\ cpc = "notify"
    /\ cpc' = "hasFuture"
    /\ IF Waiting = {}
         THEN UNCHANGED wpc
         ELSE \E w \in Waiting : wpc' = [wpc EXCEPT ![w] = "lock"]
    /\ UNCHANGED <<adaptor, nWorkers, tasks_, mutex_, cur, nSub, tag,
                   execCount, taskReady, taskSlot, deqBy, deqOrder, doneOrder>>
    /\ UNCHANGED <<promiseVars, deferredVars, extVars>>

(* variant: the destructor of a future never waits *)
FutureDtor_noblock ==
    /\ cpc = "hasFuture"
    /\ cpc' = "idle"
    /\ UNCHANGED <<adaptor, nWorkers, tasks_, mutex_, wpc, cur, nSub, tag,
                   execCount, taskReady, taskSlot, deqBy, deqOrder, doneOrder>>
    /\ UNCHANGED <<promiseVars, deferredVars, extVars>>

(* ~future: never blocks, unless the future was produced by std::async,    *)
(* then it blocks until the task has completed                             *)
FutureDtor ==
    /\ cpc = "hasFuture"
    /\ tag[nSub] => taskReady[nSub]
    /\ cpc' = "idle"
    /\ UNCHANGED <<adaptor, nWorkers, tasks_, mutex_, wpc, cur, nSub, tag,
                   execCount, taskReady, taskSlot, deqBy, deqOrder, doneOrder>>
    /\ UNCHANGED <<promiseVars, deferredVars, extVars>>

(* worker(): std::unique_lock<std::mutex> lock(mutex_); also the re-lock   *)
(* inside cv_.wait after a wake-up                                         *)
worker_lock(w) ==
    /\ wpc[w] = "lock"
    /\ mutex_ = Unlocked
    /\ mutex_' = w
    /\ wpc' = [wpc EXCEPT ![w] = "locked"]
    /\ UNCHANGED <<adaptor, nWorkers, tasks_, cur, cpc, nSub, tag,
                   execCount, taskReady, taskSlot, deqBy, deqOrder, doneOrder>>
    /\ UNCHANGED <<promiseVars, deferredVars, extVars>>

(* cv_.wait(lock, pred) with tasks_ empty: unlock and block *)
worker_wait(w) ==
    /\ wpc[w] = "locked"
    /\ mutex_ = w
    /\ tasks_ = << >>
    /\ mutex_' = Unlocked
    /\ wpc' = [wpc EXCEPT ![w] = "waiting"]
    /\ UNCHANGED <<adaptor, nWorkers, tasks_, cur, cpc, nSub, tag,
                   execCount, taskReady, taskSlot, deqBy, deqOrder, doneOrder>>
    /\ UNCHANGED <<promiseVars, deferredVars, extVars>>

(* a condition variable may wake without notify *)
worker_spurious(w) ==
    /\ wpc[w] = "waiting"
    /\ wpc' = [wpc EXCEPT ![w] = "lock"]
    /\ UNCHANGED <<adaptor, nWorkers, tasks_, mutex_, cur, cpc, nSub, tag,
                   execCount, taskReady, taskSlot, deqBy, deqOrder, doneOrder>>
    /\ UNCHANGED <<promiseVars, deferredVars, extVars>>

(* variant: the task is read but left in tasks_ *)
worker_dequeue_nopop(w) ==
    /\ wpc[w] = "locked"
    /\ mutex_ = w
    /\ tasks_ # << >>
    /\ cur' = [cur EXCEPT ![w] = Top(tasks_)]
    /\ deqBy' = [deqBy EXCEPT ![Top(tasks_)] = @ \cup {w}]
    /\ deqOrder' = Append(deqOrder, Top(tasks_))
    /\ mutex_' = Unlocked
    /\ wpc' = [wpc EXCEPT ![w] = "dequeued"]
    /\ UNCHANGED <<adaptor, nWorkers, tasks_, cpc, nSub, tag,
                   execCount, taskReady, taskSlot, doneOrder>>
    /\ UNCHANGED <<promiseVars, deferredVars, extVars>>

(* variant: the lock is still held when the block is left *)
worker_dequeue_keeplock(w) ==
    /\ wpc[w] = "locked"
    /\ mutex_ = w
    /\ tasks_ # << >>
    /\ cur' = [cur EXCEPT ![w] = Top(tasks_)]
    /\ tasks_' = Pop(tasks_)
    /\ deqBy' = [deqBy EXCEPT ![Top(tasks_)] = @ \cup {w}]
    /\ deqOrder' = Append(deqOrder, Top(tasks_))
    /\ wpc' = [wpc EXCEPT ![w] = "dequeued"]
    /\ UNCHANGED <<adaptor, nWorkers, mutex_, cpc, nSub, tag,
                   execCount, taskReady, taskSlot, doneOrder>>
    /\ UNCHANGED <<promiseVars, deferredVars, extVars>>

(* task = std::move(tasks_.top()); tasks_.pop(); } *)
worker_dequeue(w) ==
    /\ wpc[w] = "locked"
    /\ mutex_ = w
    /\ tasks_ # << >>
    /\ cur' = [cur EXCEPT ![w] = Top(tasks_)]
    /\ tasks_' = Pop(tasks_)
    /\ deqBy' = [deqBy EXCEPT ![Top(tasks_)] = @ \cup {w}]
    /\ deqOrder' = Append(deqOrder, Top(tasks_))
    /\ mutex_' = Unlocked
    /\ wpc' = [wpc EXCEPT ![w] = "dequeued"]
    /\ UNCHANGED <<adaptor, nWorkers, cpc, nSub, tag,
                   execCount, taskReady, taskSlot, doneOrder>>
    /\ UNCHANGED <<promiseVars, deferredVars, extVars>>

(* task(); the callable starts *)
task_call(w) ==
    /\ wpc[w] = "dequeued"
    /\ execCount' = [execCount EXCEPT ![cur[w]] = @ + 1]
    /\ wpc' = [wpc EXCEPT ![w] = "running"]
    /\ UNCHANGED <<adaptor, nWorkers, tasks_, mutex_, cur, cpc, nSub, tag,
                   taskReady, taskSlot, deqBy, deqOrder, doneOrder>>
    /\ UNCHANGED <<promiseVars, deferredVars, extVars>>

(* task(); the callable returns, the packaged_task makes its state ready;  *)
(* back to the top of while (true)                                         *)
(* variant: the task finishes without making its shared state ready *)
task_return_lost(w) ==
    /\ wpc[w] = "running"
    /\ doneOrder' = Append(doneOrder, cur[w])
    /\ cur' = [cur EXCEPT ![w] = 0]
    /\ wpc' = [wpc EXCEPT ![w] = "lock"]
    /\ UNCHANGED <<adaptor, nWorkers, tasks_, mutex_, cpc, nSub, tag,
                   execCount, taskReady, taskSlot, deqBy, deqOrder>>
    /\ UNCHANGED <<promiseVars, deferredVars, extVars>>

task_return(w) ==
    /\ wpc[w] = "running"
    /\ IF taskReady[cur[w]]
         THEN UNCHANGED <<taskReady, taskSlot>>
         ELSE /\ taskReady' = [taskReady EXCEPT ![cur[w]] = TRUE]
              /\ taskSlot' = [taskSlot EXCEPT ![cur[w]] = Value(TaskResult(cur[w]))]
    /\ doneOrder' = Append(doneOrder, cur[w])
    /\ cur' = [cur EXCEPT ![w] = 0]
    /\ wpc' = [wpc EXCEPT ![w] = "lock"]
    /\ UNCHANGED <<adaptor, nWorkers, tasks_, mutex_, cpc, nSub, tag,
                   execCount, deqBy, deqOrder>>
    /\ UNCHANGED <<promiseVars, deferredVars, extVars>>

(***************************************************************************)
(* std::async(std::launch::deferred, foo, 4.2, 'a', true)                  *)
(***************************************************************************)
Other == 1

DThreads == {Main, Other}

NoDeferred ==
    /\ dpc = "start"
    /\ dop = "none"
    /\ dstate = "none"
    /\ dExec = 0
    /\ dSlot = Absent
    /\ dGot = Absent
    /\ worked = FALSE
    /\ nDCalls = 0
    /\ holder = Main
    /\ runner = -1

(* variant: foo is run by the launching call *)
async_deferred_eager ==
    /\ dpc = "start"
    /\ dpc' = "idle"
    /\ dstate' = "ready"
    /\ dExec' = dExec + 1
    /\ runner' = holder
    /\ dSlot' = Value(FooResult)
    /\ UNCHANGED <<dop, dGot, worked, nDCalls, holder>>
    /\ UNCHANGED <<promiseVars, poolVars, extVars>>

(* fut = std::async(std::launch::deferred, foo, ...): the call is deferred *)
async_deferred ==
    /\ dpc = "start"
    /\ dpc' = "idle"
    /\ dstate' = "deferred"
    /\ UNCHANGED <<dop, dExec, dSlot, dGot, worked, nDCalls, holder, runner>>
    /\ UNCHANGED <<promiseVars, poolVars, extVars>>

(* timeConsumingTask(5); in the thread that holds fut *)
MainWork ==
    /\ dpc = "idle"
    /\ ~worked
    /\ worked' = TRUE
    /\ UNCHANGED <<dpc, dop, dstate, dExec, dSlot, dGot, nDCalls, holder, runner>>
    /\ UNCHANGED <<promiseVars, poolVars, extVars>>

(* ownership of the future is transferred to another thread *)
MoveFuture(t) ==
    /\ dpc = "idle"
    /\ t # holder
    /\ holder' = t
    /\ UNCHANGED <<dpc, dop, dstate, dExec, dSlot, dGot, worked, nDCalls, runner>>
    /\ UNCHANGED <<promiseVars, poolVars, extVars>>

(* fut.wait() / fut.get(): the first call starts foo in the calling thread *)
DeferredCall(op) ==
    /\ dpc = "idle"
    /\ nDCalls < MaxCalls
    /\ nDCalls' = nDCalls + 1
    /\ dop' = op
    /\ IF dstate = "deferred"
         THEN /\ dstate' = "running"
              /\ dExec' = dExec + 1
              /\ runner' = holder
              /\ dpc' = "running"
         ELSE /\ dpc' = "returning"
              /\ UNCHANGED <<dstate, dExec, runner>>
    /\ UNCHANGED <<dSlot, dGot, worked, holder>>
    /\ UNCHANGED <<promiseVars, poolVars, extVars>>

(* foo returns 42 (or throws): the result is stored, the state is ready *)
DeferredRun(ok) ==
    /\ dpc = "running"
    /\ dSlot' = IF ok THEN Value(FooResult) ELSE Failure("CallableFailure", 0)
    /\ dstate' = "ready"
    /\ dpc' = "returning"
    /\ UNCHANGED <<dop, dExec, dGot, worked, nDCalls, holder, runner>>
    /\ UNCHANGED <<promiseVars, poolVars, extVars>>

(* wait() returns; get() returns the value or raises the stored exception *)
DeferredReturn ==
    /\ dpc = "returning"
    /\ dstate = "ready"
    /\ IF dop = "get"
         THEN /\ dGot' = dSlot
              /\ dpc' = "consumed"
         ELSE /\ dpc' = "idle"
              /\ UNCHANGED dGot
    /\ dop' = "none"
    /\ UNCHANGED <<dstate, dExec, dSlot, worked, nDCalls, holder, runner>>
    /\ UNCHANGED <<promiseVars, poolVars, extVars>>

(* ~future of a deferred call: never blocks, never runs foo *)
DeferredDtor ==
    /\ dpc \in {"idle", "consumed"}
    /\ dpc' = "destroyed"
    /\ UNCHANGED <<dop, dstate, dExec, dSlot, dGot, worked, nDCalls, holder, runner>>
    /\ UNCHANGED <<promiseVars, poolVars, extVars>>

(***************************************************************************)
(* my_task<R(Args...)>: std::function fn; std::promise<R> pr;              *)
(***************************************************************************)
NoTask ==
    /\ tpc = "none"
    /\ tExec = 0
    /\ tErr = "none"
    /\ tThrown = FALSE
    /\ nInvoke = 0

(* variant: the constructor calls fn *)
NewTask_run ==
    /\ tpc = "idle"
    /\ tExec = 1
    /\ tErr = "none"
    /\ tThrown = FALSE
    /\ nInvoke = 0

(* explicit my_task(Ts &&... ts) : fn(...) { }   nothing is called *)
NewTask ==
    /\ tpc = "idle"
    /\ tExec = 0
    /\ tErr = "none"
    /\ tThrown = FALSE
    /\ nInvoke = 0

(* std::future<R> get_future() { return pr.get_future(); } *)
task_get_future ==
    /\ tpc # "none"
    /\ get_future("pr")

(* operator(): the argument of pr.set_value is evaluated first: fn(...) *)
task_invoke_call ==
    /\ tpc = "idle"
    /\ handle["pr"] = "owner"
    /\ nInvoke < MaxCalls
    /\ nInvoke' = nInvoke + 1
    /\ tExec' = tExec + 1
    /\ tpc' = "running"
    /\ UNCHANGED <<tErr, tThrown>>
    /\ UNCHANGED <<promiseVars, poolVars, deferredVars>>
    /\ UNCHANGED <<sharedVars, fanVars, asyncVars, lateVars>>

(* operator(): fn returned: pr.set_value(result); fn threw: there is no    *)
(* try/catch, the exception leaves operator() and pr is not touched        *)
task_invoke_return(ok) ==
    /\ tpc = "running"
    /\ tpc' = "idle"
    /\ IF ok
         THEN /\ nSet' = nSet + 1
              /\ UNCHANGED tThrown
              /\ IF ready
                   THEN /\ werr' = "AlreadySatisfied"
                        /\ tErr' = "AlreadySatisfied"
                        /\ UNCHANGED <<slot, ready, firstWrite>>
                   ELSE /\ werr' = "none"
                        /\ tErr' = "none"
                        /\ slot' = Value(FooResult)
                        /\ ready' = TRUE
                        /\ firstWrite' = [by |-> "pr", out |-> Value(FooResult)]
         ELSE /\ tErr' = "CallableFailure"
              /\ tThrown' = TRUE
              /\ UNCHANGED <<slot, ready, firstWrite, werr, nSet>>
    /\ UNCHANGED <<readerTaken, handle, rpc, got, waited, nGetFuture, refcnt, nFree>>
    /\ UNCHANGED <<tExec, nInvoke>>
    /\ UNCHANGED <<poolVars, deferredVars>>
    /\ UNCHANGED <<sharedVars, fanVars, asyncVars, lateVars>>

(* ~my_task: destroys pr *)
task_destroy ==
    /\ tpc = "idle"
    /\ DestroyPromise("pr")

(***************************************************************************)
(* fut.get() on the future returned by std::async(std::launch::async, ...) *)
(***************************************************************************)
NoGet == cgot = [t \in Tasks |-> Absent]

(* int res = fut.get(); *)
(* variant: get() runs a task that has not started in the calling thread *)
future_get_call_inline ==
    /\ cpc = "hasFuture"
    /\ cgot[nSub] = Absent
    /\ cpc' = "inGet"
    /\ IF execCount[nSub] = 0
         THEN /\ execCount' = [execCount EXCEPT ![nSub] = 1]
              /\ taskReady' = [taskReady EXCEPT ![nSub] = TRUE]
              /\ taskSlot' = [taskSlot EXCEPT ![nSub] = Value(TaskResult(nSub))]
         ELSE UNCHANGED <<execCount, taskReady, taskSlot>>
    /\ UNCHANGED <<adaptor, nWorkers, tasks_, mutex_, wpc, cur, nSub, tag,
                   deqBy, deqOrder, doneOrder>>
    /\ UNCHANGED <<promiseVars, deferredVars, taskVars, sharedVars, fanVars, asyncVars, lateVars>>

future_get_call ==
    /\ cpc = "hasFuture"
    /\ cgot[nSub] = Absent
    /\ cpc' = "inGet"
    /\ UNCHANGED <<adaptor, nWorkers, tasks_, mutex_, wpc, cur, nSub, tag,
                   execCount, taskReady, taskSlot, deqBy, deqOrder, doneOrder>>
    /\ UNCHANGED <<promiseVars, deferredVars, taskVars, sharedVars, fanVars, asyncVars, lateVars>>

(* get() blocks only while the result is not ready *)
future_get_return ==
    /\ cpc = "inGet"
    /\ taskReady[nSub]
    /\ cgot' = [cgot EXCEPT ![nSub] = taskSlot[nSub]]
    /\ cpc' = "hasFuture"
    /\ UNCHANGED <<adaptor, nWorkers, tasks_, mutex_, wpc, cur, nSub, tag,
                   execCount, taskReady, taskSlot, deqBy, deqOrder, doneOrder>>
    /\ UNCHANGED <<promiseVars, deferredVars, taskVars, sharedVars, fanVars, lateVars>>

(***************************************************************************)
(* std::shared_future: copies of the future, one per reading thread        *)
(***************************************************************************)
Readers == 1..MaxReaders

NoShared ==
    /\ spc = [r \in Readers |-> "none"]
    /\ sgot = [r \in Readers |-> << >>]
    /\ sn = [r \in Readers |-> 0]

(* a std::future can become a std::shared_future: fut.share() *)
share ==
    /\ rpc = "idle"
    /\ spc[1] = "none"
    /\ rpc' = "shared"
    /\ spc' = [spc EXCEPT ![1] = "idle"]
    /\ UNCHANGED <<slot, ready, readerTaken, handle, werr, got, waited, firstWrite, nSet, nGetFuture, refcnt, nFree>>
    /\ UNCHANGED <<sgot, sn>>
    /\ UNCHANGED <<poolVars, deferredVars, taskVars, fanVars, asyncVars, lateVars>>

(* variant: the copy takes no reference of its own *)
shared_copy_nocount(r) ==
    /\ spc[r] = "none"
    /\ \E q \in Readers : spc[q] = "idle"
    /\ spc' = [spc EXCEPT ![r] = "idle"]
    /\ UNCHANGED <<sgot, sn>>
    /\ UNCHANGED promiseVars
    /\ UNCHANGED <<poolVars, deferredVars, taskVars, fanVars, asyncVars, lateVars>>

(* the shared_future is copied to a new object, which refers to the same   *)
(* shared state                                                            *)
shared_copy(r) ==
    /\ spc[r] = "none"
    /\ \E q \in Readers : spc[q] = "idle"
    /\ spc' = [spc EXCEPT ![r] = "idle"]
    /\ refcnt' = refcnt + 1
    /\ UNCHANGED <<sgot, sn>>
    /\ UNCHANGED <<slot, ready, readerTaken, handle, werr, rpc, got, waited, firstWrite, nSet, nGetFuture, nFree>>
    /\ UNCHANGED <<poolVars, deferredVars, taskVars, fanVars, asyncVars, lateVars>>

(* a copy of the shared_future is destroyed *)
shared_destroy(r) ==
    /\ spc[r] = "idle"
    /\ spc' = [spc EXCEPT ![r] = "destroyed"]
    /\ ReleaseState
    /\ UNCHANGED <<sgot, sn>>
    /\ UNCHANGED <<slot, ready, readerTaken, handle, werr, rpc, got, waited, firstWrite, nSet, nGetFuture>>
    /\ UNCHANGED <<poolVars, deferredVars, taskVars, fanVars, asyncVars, lateVars>>

(* wait() / get() on copy r *)
shared_call(r, op) ==
    /\ spc[r] = "idle"
    /\ sn[r] < MaxCalls
    /\ sn' = [sn EXCEPT ![r] = @ + 1]
    /\ spc' = [spc EXCEPT ![r] = IF op = "get" THEN "inGet" ELSE "inWait"]
    /\ UNCHANGED sgot
    /\ UNCHANGED promiseVars
    /\ UNCHANGED <<poolVars, deferredVars, taskVars, fanVars, asyncVars, lateVars>>

(* variant: get() moves the result out of the shared state *)
shared_return_move(r) ==
    /\ spc[r] \in {"inWait", "inGet"}
    /\ ready
    /\ spc' = [spc EXCEPT ![r] = "idle"]
    /\ IF spc[r] = "inGet"
         THEN /\ sgot' = [sgot EXCEPT ![r] = Append(@, slot)]
              /\ slot' = Value(0)
         ELSE UNCHANGED <<sgot, slot>>
    /\ UNCHANGED sn
    /\ UNCHANGED <<ready, readerTaken, handle, werr, rpc, got, waited, firstWrite, nSet, nGetFuture, refcnt, nFree>>
    /\ UNCHANGED <<poolVars, deferredVars, taskVars, fanVars, asyncVars, lateVars>>

(* variant: making the state ready wakes a single waiter *)
shared_return_one(r) ==
    /\ spc[r] \in {"inWait", "inGet"}
    /\ ready
    /\ \A q \in Readers \ {r} : ~(sn[q] > 0 /\ spc[q] = "idle")
    /\ spc' = [spc EXCEPT ![r] = "idle"]
    /\ IF spc[r] = "inGet"
         THEN sgot' = [sgot EXCEPT ![r] = Append(@, slot)]
         ELSE UNCHANGED sgot
    /\ UNCHANGED sn
    /\ UNCHANGED promiseVars
    /\ UNCHANGED <<poolVars, deferredVars, taskVars, fanVars, asyncVars, lateVars>>

(* the state is ready: every thread waiting on it is unblocked; get()      *)
(* returns the stored value or raises the stored exception, wait() returns *)
shared_return(r) ==
    /\ spc[r] \in {"inWait", "inGet"}
    /\ ready
    /\ spc' = [spc EXCEPT ![r] = "idle"]
    /\ IF spc[r] = "inGet"
         THEN sgot' = [sgot EXCEPT ![r] = Append(@, slot)]
         ELSE UNCHANGED sgot
    /\ UNCHANGED sn
    /\ UNCHANGED promiseVars
    /\ UNCHANGED <<poolVars, deferredVars, taskVars, fanVars, asyncVars, lateVars>>

(***************************************************************************)
(* main of the providers demonstration: one shared state per provider      *)
(***************************************************************************)
Writers == 1..MaxWriters

(* the values the providers produce: 7, 8, 9 *)
FanBase == 6

FanValue(i) == FanBase + i

NoFan ==
    /\ fpc = [i \in Writers |-> "done"]
    /\ fslot = [i \in Writers |-> Absent]
    /\ fready = [i \in Writers |-> FALSE]
    /\ ferr = [i \in Writers |-> "none"]
    /\ mphase = "done"
    /\ midx = 0
    /\ mgot = [i \in Writers |-> Absent]

(* main has created the first provider and holds no future yet *)
NewFan ==
    /\ fpc = [i \in Writers |-> "none"]
    /\ fslot = [i \in Writers |-> Absent]
    /\ fready = [i \in Writers |-> FALSE]
    /\ ferr = [i \in Writers |-> "none"]
    /\ mphase = "future"
    /\ midx = 1
    /\ mgot = [i \in Writers |-> Absent]

(* std::future<int> f = task.get_future() / p.get_future() / the future of *)
(* std::async                                                              *)
fan_get_future ==
    /\ mphase = "future"
    /\ mphase' = "launch"
    /\ UNCHANGED <<fpc, fslot, fready, ferr, midx, mgot>>
    /\ UNCHANGED <<promiseVars, poolVars, deferredVars, taskVars, sharedVars, asyncVars, lateVars>>

(* std::thread(...).detach() / the thread std::launch::async starts *)
fan_launch ==
    /\ mphase = "launch"
    /\ fpc[midx] = "none"
    /\ fpc' = [fpc EXCEPT ![midx] = "start"]
    /\ IF midx < MaxWriters
         THEN midx' = midx + 1 /\ mphase' = "future"
         ELSE midx' = 1 /\ mphase' = "wait"
    /\ UNCHANGED <<fslot, fready, ferr, mgot>>
    /\ UNCHANGED <<promiseVars, poolVars, deferredVars, taskVars, sharedVars, asyncVars, lateVars>>

(* the provider thread starts computing its result *)
fan_start(i) ==
    /\ fpc[i] = "start"
    /\ fpc' = [fpc EXCEPT ![i] = "running"]
    /\ UNCHANGED <<fslot, fready, ferr, mphase, midx, mgot>>
    /\ UNCHANGED <<promiseVars, poolVars, deferredVars, taskVars, sharedVars, asyncVars, lateVars>>

(* variant: every provider writes into the first shared state *)
fan_set_value_same(i) ==
    /\ fpc[i] = "running"
    /\ fpc' = [fpc EXCEPT ![i] = "done"]
    /\ IF fready[1]
         THEN /\ ferr' = [ferr EXCEPT ![i] = "AlreadySatisfied"]
              /\ UNCHANGED <<fslot, fready>>
         ELSE /\ ferr' = [ferr EXCEPT ![i] = "none"]
              /\ fslot' = [fslot EXCEPT ![1] = Value(FanValue(i))]
              /\ fready' = [fready EXCEPT ![1] = TRUE]
    /\ UNCHANGED <<mphase, midx, mgot>>
    /\ UNCHANGED <<promiseVars, poolVars, deferredVars, taskVars, sharedVars, asyncVars, lateVars>>

(* p.set_value(9) / the task returns 7 / the async function returns 8 *)
fan_set_value(i) ==
    /\ fpc[i] = "running"
    /\ fpc' = [fpc EXCEPT ![i] = "done"]
    /\ IF fready[i]
         THEN /\ ferr' = [ferr EXCEPT ![i] = "AlreadySatisfied"]
              /\ UNCHANGED <<fslot, fready>>
         ELSE /\ ferr' = [ferr EXCEPT ![i] = "none"]
              /\ fslot' = [fslot EXCEPT ![i] = Value(FanValue(i))]
              /\ fready' = [fready EXCEPT ![i] = TRUE]
    /\ UNCHANGED <<mphase, midx, mgot>>
    /\ UNCHANGED <<promiseVars, poolVars, deferredVars, taskVars, sharedVars, asyncVars, lateVars>>

(* f1.wait(); f2.wait(); f3.wait(); : the call is entered *)
main_wait_call ==
    /\ mphase = "wait"
    /\ mphase' = "inWait"
    /\ UNCHANGED <<fpc, fslot, fready, ferr, midx, mgot>>
    /\ UNCHANGED <<promiseVars, poolVars, deferredVars, taskVars, sharedVars, asyncVars, lateVars>>

(* wait() returns once the state of that future is ready *)
main_wait ==
    /\ mphase = "inWait"
    /\ fready[midx]
    /\ IF midx < MaxWriters
         THEN midx' = midx + 1 /\ mphase' = "wait"
         ELSE midx' = 1 /\ mphase' = "get"
    /\ UNCHANGED <<fpc, fslot, fready, ferr, mgot>>
    /\ UNCHANGED <<promiseVars, poolVars, deferredVars, taskVars, sharedVars, asyncVars, lateVars>>

(* << f1.get() << ' ' << f2.get() << ' ' << f3.get() *)
main_get ==
    /\ mphase = "get"
    /\ fready[midx]
    /\ mgot' = [mgot EXCEPT ![midx] = fslot[midx]]
    /\ IF midx < MaxWriters
         THEN midx' = midx + 1 /\ UNCHANGED mphase
         ELSE midx' = 0 /\ mphase' = "done"
    /\ UNCHANGED <<fpc, fslot, fready, ferr>>
    /\ UNCHANGED <<promiseVars, poolVars, deferredVars, taskVars, sharedVars, asyncVars, lateVars>>

(***************************************************************************)
(* A deferred std::async whose future became a shared_future, one copy per *)
(* thread                                                                  *)
(***************************************************************************)
NoDShared ==
    /\ qpc = [t \in DThreads |-> "none"]
    /\ qop = [t \in DThreads |-> "none"]
    /\ qn = [t \in DThreads |-> 0]
    /\ qgot = [t \in DThreads |-> << >>]

NoShutdown == stop = FALSE

NoNested ==
    /\ child = [t \in Tasks |-> 0]
    /\ nInner = 0

NoLate == NoDShared /\ NoShutdown /\ NoNested

(* fut.share(): the future becomes a shared_future, copied to each thread *)
deferred_share ==
    /\ dpc = "idle"
    /\ dpc' = "shared"
    /\ qpc' = [t \in DThreads |-> "idle"]
    /\ UNCHANGED <<qop, qn, qgot>>
    /\ UNCHANGED <<dop, dstate, dExec, dSlot, dGot, worked, nDCalls, holder, runner>>
    /\ UNCHANGED <<promiseVars, poolVars, taskVars, sharedVars, fanVars, asyncVars, shutVars, nestVars>>

(* variant: a caller that finds foo running starts it as well *)
shared_deferred_call_race(t, op) ==
    /\ qpc[t] = "idle"
    /\ qn[t] < MaxCalls
    /\ qn' = [qn EXCEPT ![t] = @ + 1]
    /\ qop' = [qop EXCEPT ![t] = op]
    /\ IF dstate \in {"deferred", "running"}
         THEN /\ dstate' = "running"
              /\ dExec' = dExec + 1
              /\ runner' = t
              /\ qpc' = [qpc EXCEPT ![t] = "running"]
         ELSE /\ qpc' = [qpc EXCEPT ![t] = "blocked"]
              /\ UNCHANGED <<dstate, dExec, runner>>
    /\ UNCHANGED qgot
    /\ UNCHANGED <<dpc, dop, dSlot, dGot, worked, nDCalls, holder>>
    /\ UNCHANGED <<promiseVars, poolVars, taskVars, sharedVars, fanVars, asyncVars, shutVars, nestVars>>

(* wait() / get() on a copy: the call is deferred until the first of them, *)
(* which runs foo in the calling thread; any other call blocks until the   *)
(* result is ready                                                         *)
shared_deferred_call(t, op) ==
    /\ qpc[t] = "idle"
    /\ qn[t] < MaxCalls
    /\ qn' = [qn EXCEPT ![t] = @ + 1]
    /\ qop' = [qop EXCEPT ![t] = op]
    /\ IF dstate = "deferred"
         THEN /\ dstate' = "running"
              /\ dExec' = dExec + 1
              /\ runner' = t
              /\ qpc' = [qpc EXCEPT ![t] = "running"]
         ELSE /\ qpc' = [qpc EXCEPT ![t] = "blocked"]
              /\ UNCHANGED <<dstate, dExec, runner>>
    /\ UNCHANGED qgot
    /\ UNCHANGED <<dpc, dop, dSlot, dGot, worked, nDCalls, holder>>
    /\ UNCHANGED <<promiseVars, poolVars, taskVars, sharedVars, fanVars, asyncVars, shutVars, nestVars>>

(* foo returns 42 (or throws) in thread t: the result is stored *)
shared_deferred_run(t, ok) ==
    /\ qpc[t] = "running"
    /\ dSlot' = IF ok THEN Value(FooResult) ELSE Failure("CallableFailure", 0)
    /\ dstate' = "ready"
    /\ qpc' = [qpc EXCEPT ![t] = "blocked"]
    /\ UNCHANGED <<qop, qn, qgot>>
    /\ UNCHANGED <<dpc, dop, dExec, dGot, worked, nDCalls, holder, runner>>
    /\ UNCHANGED <<promiseVars, poolVars, taskVars, sharedVars, fanVars, asyncVars, shutVars, nestVars>>

(* the state is ready: wait() returns, get() returns the result *)
shared_deferred_return(t) ==
    /\ qpc[t] = "blocked"
    /\ dstate = "ready"
    /\ qpc' = [qpc EXCEPT ![t] = "idle"]
    /\ qgot' = [qgot EXCEPT ![t] = IF qop[t] = "get" THEN Append(@, dSlot) ELSE @]
    /\ qop' = [qop EXCEPT ![t] = "none"]
    /\ UNCHANGED qn
    /\ UNCHANGED deferredVars
    /\ UNCHANGED <<promiseVars, poolVars, taskVars, sharedVars, fanVars, asyncVars, shutVars, nestVars>>

NoExt == NoTask /\ NoShared /\ NoFan /\ NoGet /\ NoLate

(***************************************************************************)
(* Specifications                                                          *)
(***************************************************************************)
InitPromise == NewPromise /\ NoPool /\ NoDeferred /\ NoExt

NextPromise ==
    \/ \E h \in Handles : get_future(h)
    \/ \E h \in Handles, v \in Values : set_value(h, v)
    \/ \E h \in Handles, p \in Values : set_exception(h, p)
    \/ MovePromise("pr", "pr2")
    \/ \E h \in Handles : DestroyPromise(h)
    \/ WaitCall
    \/ WaitReturn
    \/ GetCall
    \/ GetReturn
    \/ DestroyFuture

SpecPromise == InitPromise /\ [][NextPromise]_vars

(* a thread blocked on a ready state is scheduled and returns *)
SpecPromiseFair == SpecPromise /\ WF_vars(WaitReturn) /\ WF_vars(GetReturn)

InitPool == NewPromise /\ NewPool /\ NoDeferred /\ NoExt

NextPool ==
    \/ enqueue_call
    \/ enqueue_lock
    \/ enqueue_push
    \/ enqueue_notify
    \/ FutureDtor
    \/ \E w \in WorkerIds : worker_lock(w)
    \/ \E w \in WorkerIds : worker_wait(w)
    \/ \E w \in WorkerIds : worker_spurious(w)
    \/ \E w \in WorkerIds : worker_dequeue(w)
    \/ \E w \in WorkerIds : task_call(w)
    \/ \E w \in WorkerIds : task_return(w)

SpecPool == InitPool /\ [][NextPool]_vars

(* fair scheduling of the pool's threads: a thread that can take its next  *)
(* step takes it, and a thread contending for mutex_ gets it; new          *)
(* submissions, dropping a future and spurious wake-ups carry no fairness  *)
SpecPoolFair ==
    /\ SpecPool
    /\ SF_vars(enqueue_lock)
    /\ WF_vars(enqueue_push)
    /\ WF_vars(enqueue_notify)
    /\ \A w \in WorkerIds :
          /\ SF_vars(worker_lock(w))
          /\ WF_vars(worker_wait(w))
          /\ WF_vars(worker_dequeue(w))
          /\ WF_vars(task_call(w))
          /\ WF_vars(task_return(w))

(* operation(): every task comes from std::async(std::launch::async, ...) *)
NextAsync ==
    \/ async_call
    \/ enqueue_lock
    \/ enqueue_push
    \/ enqueue_notify
    \/ FutureDtor
    \/ \E w \in WorkerIds : worker_lock(w)
    \/ \E w \in WorkerIds : worker_wait(w)
    \/ \E w \in WorkerIds : worker_spurious(w)
    \/ \E w \in WorkerIds : worker_dequeue(w)
    \/ \E w \in WorkerIds : task_call(w)
    \/ \E w \in WorkerIds : task_return(w)

SpecAsync == InitPool /\ [][NextAsync]_vars

InitDeferred == NewPromise /\ NoPool /\ NoDeferred /\ NoExt

NextDeferred ==
    \/ async_deferred
    \/ MainWork
    \/ \E t \in DThreads : MoveFuture(t)
    \/ \E op \in {"wait", "get"} : DeferredCall(op)
    \/ \E ok \in BOOLEAN : DeferredRun(ok)
    \/ DeferredReturn
    \/ DeferredDtor

SpecDeferred == InitDeferred /\ [][NextDeferred]_vars

InitTask == NewPromise /\ NoPool /\ NoDeferred /\ NewTask /\ NoShared /\ NoFan /\ NoGet /\ NoLate

NextTask ==
    \/ task_get_future
    \/ task_invoke_call
    \/ \E ok \in BOOLEAN : task_invoke_return(ok)
    \/ task_destroy
    \/ WaitCall
    \/ WaitReturn
    \/ GetCall
    \/ GetReturn
    \/ DestroyFuture

SpecTask == InitTask /\ [][NextTask]_vars

(* the async future may be asked for its result before it is dropped *)
NextAsyncGet ==
    \/ async_call
    \/ enqueue_lock
    \/ enqueue_push
    \/ enqueue_notify
    \/ future_get_call
    \/ future_get_return
    \/ FutureDtor
    \/ \E w \in WorkerIds : worker_lock(w)
    \/ \E w \in WorkerIds : worker_wait(w)
    \/ \E w \in WorkerIds : worker_spurious(w)
    \/ \E w \in WorkerIds : worker_dequeue(w)
    \/ \E w \in WorkerIds : task_call(w)
    \/ \E w \in WorkerIds : task_return(w)

SpecAsyncGet == InitPool /\ [][NextAsyncGet]_vars

(* fair scheduling: a thread that can take its next step takes it, and a   *)
(* thread contending for mutex_ gets it; calls the caller chooses to make  *)
(* and spurious wake-ups carry no fairness                                 *)
SpecAsyncFair ==
    /\ SpecAsyncGet
    /\ SF_vars(enqueue_lock)
    /\ WF_vars(enqueue_push)
    /\ WF_vars(enqueue_notify)
    /\ WF_vars(future_get_return)
    /\ \A w \in WorkerIds :
          /\ SF_vars(worker_lock(w))
          /\ WF_vars(worker_wait(w))
          /\ WF_vars(worker_dequeue(w))
          /\ WF_vars(task_call(w))
          /\ WF_vars(task_return(w))

(* a program that uses one kind of future: of a promise, of the pool       *)
(* (packaged_task and std::async mixed) or of a deferred std::async        *)
PromiseOff ==
    /\ slot = Absent
    /\ ready = FALSE
    /\ readerTaken = FALSE
    /\ handle = [h \in Handles |-> "unborn"]
    /\ werr = "none"
    /\ rpc = "none"
    /\ got = Absent
    /\ waited = FALSE
    /\ firstWrite = NoWrite
    /\ nSet = 0
    /\ nGetFuture = 0
    /\ refcnt = 0
    /\ nFree = 0

PoolOff ==
    /\ adaptor = "queue"
    /\ nWorkers = 0
    /\ tasks_ = << >>
    /\ mutex_ = Unlocked
    /\ wpc = [w \in WorkerIds |-> "off"]
    /\ cur = [w \in WorkerIds |-> 0]
    /\ cpc = "off"
    /\ nSub = 0
    /\ tag = [t \in Tasks |-> FALSE]
    /\ execCount = [t \in Tasks |-> 0]
    /\ taskReady = [t \in Tasks |-> FALSE]
    /\ taskSlot = [t \in Tasks |-> Absent]
    /\ deqBy = [t \in Tasks |-> {}]
    /\ deqOrder = << >>
    /\ doneOrder = << >>

DeferredOff ==
    /\ dpc = "off"
    /\ dop = "none"
    /\ dstate = "none"
    /\ dExec = 0
    /\ dSlot = Absent
    /\ dGot = Absent
    /\ worked = FALSE
    /\ nDCalls = 0
    /\ holder = Main
    /\ runner = -1

InitReaders ==
    /\ \/ NewPromise /\ PoolOff /\ DeferredOff
       \/ PromiseOff /\ NewPool /\ DeferredOff
       \/ PromiseOff /\ PoolOff /\ NoDeferred
    /\ NoExt

NextReaders ==
    \/ \E h \in Handles : get_future(h)
    \/ \E h \in Handles, v \in Values : set_value(h, v)
    \/ \E h \in Handles, p \in Values : set_exception(h, p)
    \/ MovePromise("pr", "pr2")
    \/ \E h \in Handles : DestroyPromise(h)
    \/ WaitCall
    \/ WaitReturn
    \/ GetCall
    \/ GetReturn
    \/ DestroyFuture
    \/ enqueue_call
    \/ async_call
    \/ enqueue_lock
    \/ enqueue_push
    \/ enqueue_notify
    \/ FutureDtor
    \/ \E w \in WorkerIds : worker_lock(w)
    \/ \E w \in WorkerIds : worker_wait(w)
    \/ \E w \in WorkerIds : worker_spurious(w)
    \/ \E w \in WorkerIds : worker_dequeue(w)
    \/ \E w \in WorkerIds : task_call(w)
    \/ \E w \in WorkerIds : task_return(w)
    \/ async_deferred
    \/ MainWork
    \/ \E t \in DThreads : MoveFuture(t)
    \/ \E op \in {"wait", "get"} : DeferredCall(op)
    \/ \E ok \in BOOLEAN : DeferredRun(ok)
    \/ DeferredReturn
    \/ DeferredDtor

SpecReaders == InitReaders /\ [][NextReaders]_vars

InitShared == NewPromise /\ NoPool /\ NoDeferred /\ NoExt

NextShared ==
    \/ \E h \in Handles : get_future(h)
    \/ \E h \in Handles, v \in Values : set_value(h, v)
    \/ \E h \in Handles, p \in Values : set_exception(h, p)
    \/ \E h \in Handles : DestroyPromise(h)
    \/ share
    \/ \E r \in Readers : shared_copy(r)
    \/ \E r \in Readers, op \in {"wait", "get"} : shared_call(r, op)
    \/ \E r \in Readers : shared_return(r)

SpecShared == InitShared /\ [][NextShared]_vars

(* a thread unblocked by make ready is scheduled and returns *)
SpecSharedFair == SpecShared /\ \A r \in Readers : WF_vars(shared_return(r))

InitFan == NewPromise /\ NoPool /\ NoDeferred /\ NoTask /\ NoShared /\ NewFan /\ NoGet /\ NoLate

NextFan ==
    \/ fan_get_future
    \/ fan_launch
    \/ \E i \in Writers : fan_start(i)
    \/ \E i \in Writers : fan_set_value(i)
    \/ main_wait_call
    \/ main_wait
    \/ main_get

SpecFan == InitFan /\ [][NextFan]_vars

(* a program that starts its tasks with std::async under one launch policy *)
InitPolicy ==
    /\ \/ NewPromise /\ NewPool /\ DeferredOff
       \/ NewPromise /\ PoolOff /\ NoDeferred
    /\ NoExt

NextPolicy ==
    \/ async_call
    \/ enqueue_lock
    \/ enqueue_push
    \/ enqueue_notify
    \/ future_get_call
    \/ future_get_return
    \/ FutureDtor
    \/ \E w \in WorkerIds : worker_lock(w)
    \/ \E w \in WorkerIds : worker_wait(w)
    \/ \E w \in WorkerIds : worker_spurious(w)
    \/ \E w \in WorkerIds : worker_dequeue(w)
    \/ \E w \in WorkerIds : task_call(w)
    \/ \E w \in WorkerIds : task_return(w)
    \/ async_deferred
    \/ MainWork
    \/ \E t \in DThreads : MoveFuture(t)
    \/ \E op \in {"wait", "get"} : DeferredCall(op)
    \/ \E ok \in BOOLEAN : DeferredRun(ok)
    \/ DeferredReturn
    \/ DeferredDtor

SpecPolicy == InitPolicy /\ [][NextPolicy]_vars

(* shutdown() in draining mode: request the stop, wake every worker with   *)
(* notify_all, then join the worker threads.  The join returns when every  *)
(* worker has left worker(); worker() of lines 59-69 has no way out of     *)
(* while (true), so the caller stays in the join.                          *)
shutdown ==
    /\ cpc \in {"idle", "hasFuture"}
    /\ ~stop
    /\ stop' = TRUE
    /\ cpc' = "joining"
    /\ wpc' = [w \in WorkerIds |-> IF wpc[w] = "waiting" THEN "lock" ELSE wpc[w]]
    /\ UNCHANGED <<adaptor, nWorkers, tasks_, mutex_, cur, nSub, tag,
                   execCount, taskReady, taskSlot, deqBy, deqOrder, doneOrder>>
    /\ UNCHANGED <<promiseVars, deferredVars, taskVars, sharedVars, fanVars,
                   asyncVars, dsVars, nestVars>>

NextShutdown ==
    \/ enqueue_call
    \/ enqueue_lock
    \/ enqueue_push
    \/ enqueue_notify
    \/ FutureDtor
    \/ shutdown
    \/ \E w \in WorkerIds : worker_lock(w)
    \/ \E w \in WorkerIds : worker_wait(w)
    \/ \E w \in WorkerIds : worker_spurious(w)
    \/ \E w \in WorkerIds : worker_dequeue(w)
    \/ \E w \in WorkerIds : task_call(w)
    \/ \E w \in WorkerIds : task_return(w)

SpecShutdown == InitPool /\ [][NextShutdown]_vars

(* fair scheduling of the threads; a spurious wake-up is never owed *)
SpecShutdownFair ==
    /\ SpecShutdown
    /\ SF_vars(enqueue_lock)
    /\ WF_vars(enqueue_push)
    /\ WF_vars(enqueue_notify)
    /\ \A w \in WorkerIds :
          /\ SF_vars(worker_lock(w))
          /\ WF_vars(worker_wait(w))
          /\ WF_vars(worker_dequeue(w))
          /\ WF_vars(task_call(w))
          /\ WF_vars(task_return(w))

(* operation(): std::async(std::launch::async, ...) from the calling       *)
(* thread, one call at a time; task numbers above MaxTasks - nInner belong *)
(* to the calls made by running tasks                                      *)
outer_call ==
    /\ nSub + nInner < MaxTasks
    /\ async_call

(* variant: a task started by a running task makes such a call as well *)
nested_call_deep(w) ==
    /\ wpc[w] = "running"
    /\ child[cur[w]] = 0
    /\ nSub + nInner < MaxTasks
    /\ child' = [child EXCEPT ![cur[w]] = MaxTasks - nInner]
    /\ nInner' = nInner + 1
    /\ tag' = [tag EXCEPT ![MaxTasks - nInner] = TRUE]
    /\ wpc' = [wpc EXCEPT ![w] = "nlock"]
    /\ UNCHANGED <<adaptor, nWorkers, tasks_, mutex_, cur, cpc, nSub,
                   execCount, taskReady, taskSlot, deqBy, deqOrder, doneOrder>>
    /\ UNCHANGED <<promiseVars, deferredVars, taskVars, sharedVars, fanVars,
                   asyncVars, dsVars, shutVars>>

(* the running task calls std::async(std::launch::async, g) itself: the    *)
(* worker thread enters enqueue; g makes no such call                      *)
nested_call(w) ==
    /\ wpc[w] = "running"
    /\ cur[w] <= nSub
    /\ child[cur[w]] = 0
    /\ nSub + nInner < MaxTasks
    /\ child' = [child EXCEPT ![cur[w]] = MaxTasks - nInner]
    /\ nInner' = nInner + 1
    /\ tag' = [tag EXCEPT ![MaxTasks - nInner] = TRUE]
    /\ wpc' = [wpc EXCEPT ![w] = "nlock"]
    /\ UNCHANGED <<adaptor, nWorkers, tasks_, mutex_, cur, cpc, nSub,
                   execCount, taskReady, taskSlot, deqBy, deqOrder, doneOrder>>
    /\ UNCHANGED <<promiseVars, deferredVars, taskVars, sharedVars, fanVars,
                   asyncVars, dsVars, shutVars>>

(* enqueue on the worker thread: std::lock_guard<std::mutex> lock(mutex_); *)
nested_lock(w) ==
    /\ wpc[w] = "nlock"
    /\ mutex_ = Unlocked
    /\ mutex_' = w
    /\ wpc' = [wpc EXCEPT ![w] = "npush"]
    /\ UNCHANGED <<adaptor, nWorkers, tasks_, cur, cpc, nSub, tag,
                   execCount, taskReady, taskSlot, deqBy, deqOrder, doneOrder>>
    /\ UNCHANGED <<promiseVars, deferredVars, extVars>>

(* tasks_.push(std::move(task)); } *)
nested_push(w) ==
    /\ wpc[w] = "npush"
    /\ mutex_ = w
    /\ tasks_' = Append(tasks_, child[cur[w]])
    /\ mutex_' = Unlocked
    /\ wpc' = [wpc EXCEPT ![w] = "nnotify"]
    /\ UNCHANGED <<adaptor, nWorkers, cur, cpc, nSub, tag,
                   execCount, taskReady, taskSlot, deqBy, deqOrder, doneOrder>>
    /\ UNCHANGED <<promiseVars, deferredVars, extVars>>

(* cv_.notify_one(); return res; the task then calls get() on the future,  *)
(* or drops it and enters its destructor                                   *)
nested_notify(w) ==
    /\ wpc[w] = "nnotify"
    /\ IF Waiting = {}
         THEN wpc' = [wpc EXCEPT ![w] = "nget"]
         ELSE \E u \in Waiting : wpc' = [wpc EXCEPT ![w] = "nget", ![u] = "lock"]
    /\ UNCHANGED <<adaptor, nWorkers, tasks_, mutex_, cur, cpc, nSub, tag,
                   execCount, taskReady, taskSlot, deqBy, deqOrder, doneOrder>>
    /\ UNCHANGED <<promiseVars, deferredVars, extVars>>

(* get(), or the destructor of the future of std::async: both block the    *)
(* worker thread until the task it started has completed                   *)
nested_get(w) ==
    /\ wpc[w] = "nget"
    /\ taskReady[child[cur[w]]]
    /\ wpc' = [wpc EXCEPT ![w] = "running"]
    /\ UNCHANGED <<adaptor, nWorkers, tasks_, mutex_, cur, cpc, nSub, tag,
                   execCount, taskReady, taskSlot, deqBy, deqOrder, doneOrder>>
    /\ UNCHANGED <<promiseVars, deferredVars, extVars>>

NextNested ==
    \/ outer_call
    \/ enqueue_lock
    \/ enqueue_push
    \/ enqueue_notify
    \/ FutureDtor
    \/ \E w \in WorkerIds : worker_lock(w)
    \/ \E w \in WorkerIds : worker_wait(w)
    \/ \E w \in WorkerIds : worker_spurious(w)
    \/ \E w \in WorkerIds : worker_dequeue(w)
    \/ \E w \in WorkerIds : task_call(w)
    \/ \E w \in WorkerIds : nested_call(w)
    \/ \E w \in WorkerIds : nested_lock(w)
    \/ \E w \in WorkerIds : nested_push(w)
    \/ \E w \in WorkerIds : nested_notify(w)
    \/ \E w \in WorkerIds : nested_get(w)
    \/ \E w \in WorkerIds : task_return(w)

SpecNested == InitPool /\ [][NextNested]_vars

(* fair scheduling of the threads; a spurious wake-up is never owed *)
SpecNestedFair ==
    /\ SpecNested
    /\ SF_vars(enqueue_lock)
    /\ WF_vars(enqueue_push)
    /\ WF_vars(enqueue_notify)
    /\ WF_vars(FutureDtor)
    /\ \A w \in WorkerIds :
          /\ SF_vars(worker_lock(w))
          /\ WF_vars(worker_wait(w))
          /\ WF_vars(worker_dequeue(w))
          /\ WF_vars(task_call(w))
          /\ SF_vars(nested_lock(w))
          /\ WF_vars(nested_push(w))
          /\ WF_vars(nested_notify(w))
          /\ WF_vars(nested_get(w))
          /\ WF_vars(task_return(w))

(* every handle on one shared state: the promise and its move, the future, *)
(* the shared_future and its copies, each of them destroyed at some point  *)
NextLife ==
    \/ \E h \in Handles : get_future(h)
    \/ \E h \in Handles, v \in Values : set_value(h, v)
    \/ \E h \in Handles, p \in Values : set_exception(h, p)
    \/ MovePromise("pr", "pr2")
    \/ \E h \in Handles : DestroyPromise(h)
    \/ WaitCall
    \/ WaitReturn
    \/ GetCall
    \/ GetReturn
    \/ DestroyFuture
    \/ share
    \/ \E r \in Readers : shared_copy(r)
    \/ \E r \in Readers, op \in {"wait", "get"} : shared_call(r, op)
    \/ \E r \in Readers : shared_return(r)
    \/ \E r \in Readers : shared_destroy(r)

SpecLife == InitPromise /\ [][NextLife]_vars

NextDeferredShared ==
    \/ async_deferred
    \/ MainWork
    \/ \E t \in DThreads : MoveFuture(t)
    \/ \E op \in {"wait", "get"} : DeferredCall(op)
    \/ \E ok \in BOOLEAN : DeferredRun(ok)
    \/ DeferredReturn
    \/ DeferredDtor
    \/ deferred_share
    \/ \E t \in DThreads, op \in {"wait", "get"} : shared_deferred_call(t, op)
    \/ \E t \in DThreads, ok \in BOOLEAN : shared_deferred_run(t, ok)
    \/ \E t \in DThreads : shared_deferred_return(t)

SpecDeferredShared == InitDeferred /\ [][NextDeferredShared]_vars

(***************************************************************************)
(* Properties of the promise / future pair                                 *)
(***************************************************************************)
Owners == {h \in Handles : handle[h] = "owner"}

OwnerDestroyed == \E h \in Handles : handle[h] = "owner" /\ handle'[h] = "dead"

(* C1 Round-trip: once a future was obtained and set_value(v) made the     *)
(* state ready, get() on that future returns exactly v, wherever the get   *)
(* call falls relative to the set.                                         *)
RoundTrip ==
    (rpc = "consumed" /\ firstWrite.out.kind = "value")
        => (got.kind = "value" /\ got.val = firstWrite.out.val)

RoundTripWitness ==
    /\ rpc = "consumed"
    /\ firstWrite.out = Value(MaxValue)
    /\ got = Value(MaxValue)

(* C2 One-shot: a set_value / set_exception on a state that is already     *)
(* ready raises AlreadySatisfied and leaves the stored outcome as it was;  *)
(* get() yields the outcome of the first set.                              *)
OneShot ==
    /\ [][(nSet' # nSet /\ ready)
            => (werr' = "AlreadySatisfied" /\ slot' = slot /\ ready')]_vars
    /\ []((rpc = "consumed" /\ firstWrite # NoWrite) => got = firstWrite.out)

OneShotWitness ==
    /\ nSet >= 2
    /\ werr = "AlreadySatisfied"
    /\ rpc = "consumed"
    /\ got = firstWrite.out

(* C3 Single retrieval: the first get_future succeeds, each later one      *)
(* raises ReaderAlreadyRetrieved, and readerTaken goes false -> true once  *)
(* and never back.                                                         *)
SingleRetrieval ==
    /\ [][nGetFuture' # nGetFuture
            => IF nGetFuture = 0
                 THEN werr' = "none" /\ ~readerTaken /\ readerTaken' /\ rpc' = "idle"
                 ELSE werr' = "ReaderAlreadyRetrieved" /\ rpc' = rpc]_vars
    /\ [][readerTaken => readerTaken']_vars
    /\ [](readerTaken <=> nGetFuture >= 1)

SingleRetrievalWitness ==
    /\ nGetFuture >= 2
    /\ werr = "ReaderAlreadyRetrieved"
    /\ readerTaken

(* C4 Abandonment: destroying the owning promise after a future was        *)
(* obtained and before any set makes the state ready with BrokenWriter,    *)
(* raises nothing itself, releases a blocked wait()/get(), and get() then  *)
(* raises BrokenWriter.                                                    *)
Abandonment ==
    /\ [][(OwnerDestroyed /\ readerTaken /\ ~ready)
            => (ready' /\ slot' = BrokenPromise /\ werr' = "none")]_vars
    /\ []((rpc = "consumed" /\ firstWrite = NoWrite) => got = BrokenPromise)
    /\ ((Owners = {} /\ rpc \in {"inWait", "inGet"})
            ~> (rpc \notin {"inWait", "inGet"}))

AbandonmentWitness ==
    /\ handle["pr2"] = "dead"
    /\ firstWrite = NoWrite
    /\ slot = BrokenPromise
    /\ got = BrokenPromise

(* C5 Writer transfer: a value set through pr2 after the move is what the  *)
(* future obtained earlier gets; destroying a satisfied handle or a        *)
(* moved-from handle changes nothing; never two handles own the write side.*)
WriterTransfer ==
    /\ [](Cardinality(Owners) <= 1)
    /\ []((\A h \in Handles : handle[h] # "dead") => Cardinality(Owners) = 1)
    /\ []((rpc = "consumed" /\ firstWrite.by = "pr2" /\ firstWrite.out.kind = "value")
            => got = firstWrite.out)
    /\ [][(\E h \in Handles : /\ handle'[h] = "dead"
                              /\ \/ handle[h] = "moved"
                                 \/ handle[h] = "owner" /\ ready)
            => (slot' = slot /\ ready' = ready /\ werr' = "none")]_vars

WriterTransferWitness ==
    /\ handle["pr"] = "dead"
    /\ handle["pr2"] = "dead"
    /\ firstWrite.by = "pr2"
    /\ rpc = "consumed"
    /\ got = Value(MaxValue)

(* C6 Inactive promise is inert: destroying the owning promise when no     *)
(* future was ever obtained raises nothing and changes nothing a reader    *)
(* could see; there is no reader.                                          *)
InactiveInert ==
    [][(OwnerDestroyed /\ ~readerTaken)
         => /\ slot' = slot
            /\ ready' = ready
            /\ werr' = "none"
            /\ rpc = "none" /\ rpc' = "none"
            /\ got' = got /\ got = Absent]_vars

InactiveInertWitness ==
    /\ handle["pr"] = "dead"
    /\ handle["pr2"] = "unborn"
    /\ ~readerTaken
    /\ ~ready
    /\ slot = Absent

(***************************************************************************)
(* Properties of std::async and of the ThreadPool                          *)
(***************************************************************************)
Occ(q, t) == Cardinality({i \in 1..Len(q) : q[i] = t})

InOrder(q) == \A i \in 1..Len(q) : q[i] = i

Pushed(t) == t < nSub \/ (t = nSub /\ cpc \notin {"lock", "push"})

Running == {w \in WorkerIds : wpc[w] = "running"}

(* C7 Deferred laziness: foo has not been executed in any state before the *)
(* first wait()/get() on the future of the deferred call, and it is never  *)
(* executed more than once, however many wait()/get() calls are made.      *)
DeferredLaziness ==
    /\ nDCalls = 0 => (dExec = 0 /\ dstate \in {"none", "deferred"})
    /\ dExec <= 1
    /\ dstate = "ready" => dExec = 1

DeferredLazinessWitness ==
    /\ worked
    /\ nDCalls >= 2
    /\ dExec = 1
    /\ dGot = Value(FooResult)

(* C8 Async reader destruction blocks: the destructor of a future returned *)
(* by std::async(std::launch::async, f) completes only when f's task has   *)
(* completed; with every future dropped as in operation(), task i is       *)
(* complete before task i+1 starts and no two tasks run at the same time.  *)
AsyncDtorBlocks ==
    /\ [][(cpc = "hasFuture" /\ cpc' # "hasFuture" /\ tag[nSub])
            => taskReady[nSub]]_vars
    /\ [](\A i, j \in Tasks :
            (i < j /\ tag[i] /\ tag[j] /\ execCount[j] > 0) => taskReady[i])
    /\ [](Cardinality(Running) <= 1)

AsyncDtorBlocksWitness ==
    /\ nWorkers >= 2
    /\ nSub = MaxTasks
    /\ cpc = "idle"
    /\ \A t \in Tasks : tag[t] /\ taskReady[t]
    /\ \E t, u \in Tasks : deqBy[t] # deqBy[u]

(* C9 Pool FIFO: with a single worker, tasks are dequeued, executed and    *)
(* completed in the order in which they were submitted.                    *)
PoolFIFO ==
    nWorkers = 1 => (InOrder(deqOrder) /\ InOrder(doneOrder))

(* C10 Pool exactly-once: every pushed task is in exactly one place (in    *)
(* tasks_, held by one worker, or completed); no task is moved out of      *)
(* tasks_ by two workers or started twice, for any number of workers.      *)
ExactlyOnce ==
    \A t \in Tasks :
        /\ execCount[t] <= 1
        /\ Cardinality(deqBy[t]) <= 1
        /\ Occ(deqOrder, t) <= 1
        /\ Occ(tasks_, t) + Cardinality({w \in WorkerIds : cur[w] = t})
             + Occ(doneOrder, t) = IF Pushed(t) THEN 1 ELSE 0
        /\ taskReady[t] => (execCount[t] = 1 /\ Occ(doneOrder, t) = 1)

ExactlyOnceWitness ==
    /\ nWorkers >= 2
    /\ nSub = MaxTasks
    /\ \A t \in Tasks : taskReady[t] /\ execCount[t] = 1
    /\ \E t, u \in Tasks : deqBy[t] # deqBy[u]

(***************************************************************************)
(* Properties of my_task                                                   *)
(***************************************************************************)

(* C11 Callable failure is captured and deferred: when fn throws, the      *)
(* operator() call raises nothing to its caller, the failure is stored in  *)
(* the shared state, which becomes ready, and get() raises it.             *)
CallableFailureCaptured ==
    /\ tErr # "CallableFailure"
    /\ (tThrown /\ nInvoke = 1 /\ tpc = "idle")
         => (ready /\ slot = Failure("CallableFailure", 0))
    /\ (tThrown /\ nInvoke = 1 /\ rpc = "consumed")
         => got = Failure("CallableFailure", 0)

(* C19 TaskCell double invocation: a second operator() call raises         *)
(* AlreadyInvoked, does not call fn again, and leaves the outcome of the   *)
(* first invocation in place.                                              *)
TaskInvokedOnce ==
    /\ tExec <= 1
    /\ (nInvoke >= 2 /\ tpc = "idle") => tErr = "AlreadyInvoked"
    /\ firstWrite # NoWrite => slot = firstWrite.out

(* C20 TaskCell is never invoked automatically: while the task is alive    *)
(* and operator() was never called, fn has not run, the state is not ready *)
(* and a get() on the future stays blocked.                                *)
TaskNotAutomatic ==
    (nInvoke = 0 /\ handle["pr"] = "owner")
        => /\ tExec = 0
           /\ ~ready
           /\ rpc = "inGet" => ~ENABLED GetReturn

TaskNotAutomaticWitness ==
    /\ nInvoke = 0
    /\ handle["pr"] = "owner"
    /\ tpc = "idle"
    /\ waited = FALSE
    /\ rpc = "inGet"

(***************************************************************************)
(* Properties of the future of a pooled task                               *)
(***************************************************************************)

(* C12: a task started with std::async(std::launch::async, ...) on a pool  *)
(* with at least one worker is eventually run, its future eventually       *)
(* becomes ready, and a get() on that future returns, with the result of   *)
(* the task and nothing else.                                              *)
AsyncCompletion ==
    /\ \A t \in Tasks : [](cgot[t] # Absent => cgot[t] = Value(TaskResult(t)))
    /\ \A t \in Tasks : tag[t] ~> taskReady[t]
    /\ \A t \in Tasks :
         (cpc = "inGet" /\ nSub = t) ~> (cpc = "hasFuture" /\ cgot[t] = Value(TaskResult(t)))

AsyncCompletionWitness ==
    /\ nSub >= 1
    /\ tag[1]
    /\ cgot[1] = Value(TaskResult(1))

(***************************************************************************)
(* Properties of std::shared_future                                        *)
(***************************************************************************)

(* C13: every get() on every copy of a shared_future returns the one       *)
(* outcome stored in the shared state, so all copies agree and a repeated  *)
(* get() on one copy returns what the first one did.                       *)
SharedReadersAgree ==
    \A r \in Readers, q \in Readers :
      \A i \in DOMAIN sgot[r], j \in DOMAIN sgot[q] :
        /\ sgot[r][i] = sgot[q][j]
        /\ sgot[r][i] = slot
        /\ sgot[r][i] # Absent
        /\ firstWrite # NoWrite => sgot[r][i] = firstWrite.out

SharedReadersAgreeWitness ==
    /\ \A r \in Readers : Len(sgot[r]) >= 2
    /\ firstWrite # NoWrite

(* C18: once the state is ready, every thread blocked in wait() or get()   *)
(* on a copy of the shared_future returns, whichever way the state became  *)
(* ready.                                                                  *)
BroadcastWakeup ==
    \A r \in Readers :
      (spc[r] \in {"inWait", "inGet"} /\ ready) ~> (spc[r] = "idle")

BroadcastWakeupWitness ==
    /\ ready
    /\ \A r \in Readers : spc[r] \in {"inWait", "inGet"} /\ sn[r] = 1

(***************************************************************************)
(* Properties of the providers demonstration                               *)
(***************************************************************************)

(* C14: each provider thread sets its value once on its own shared state:  *)
(* no set fails with AlreadySatisfied, a state is ready exactly when its   *)
(* own provider is done, it then holds that provider's value, and that is  *)
(* the value main reads from it.                                           *)
FanIn ==
    \A i \in Writers :
      /\ ferr[i] = "none"
      /\ fready[i] <=> fpc[i] = "done"
      /\ fslot[i] = IF fpc[i] = "done" THEN Value(FanValue(i)) ELSE Absent
      /\ mgot[i] # Absent => mgot[i] = Value(FanValue(i))

FanInWitness ==
    /\ mphase = "done"
    /\ \A i \in Writers : fpc[i] = "done" /\ mgot[i] = Value(FanValue(i))

(***************************************************************************)
(* Properties of future destructors                                        *)
(***************************************************************************)

(* C15: the destructor of a future obtained from a promise, from a         *)
(* packaged_task or from a deferred std::async can always complete, ready  *)
(* shared state or not; a destructor that cannot complete belongs to a     *)
(* future of std::async(std::launch::async, ...) whose state is not ready. *)
ReaderDtorNeverBlocks ==
    /\ rpc = "idle" => ENABLED DestroyFuture
    /\ dpc = "idle" => ENABLED DeferredDtor
    /\ (cpc = "hasFuture" /\ ~tag[nSub]) => ENABLED FutureDtor
    /\ (cpc = "hasFuture" /\ ~ENABLED FutureDtor) => (tag[nSub] /\ ~taskReady[nSub])

ReaderDtorNeverBlocksWitness ==
    /\ rpc = "destroyed"
    /\ ~ready
    /\ Owners # {}

(***************************************************************************)
(* Properties of the shared state                                          *)
(***************************************************************************)

(* C16: the state is ready exactly when it holds an outcome, which is      *)
(* either a value or a failure, and once it is ready neither the flag nor  *)
(* the outcome changes, whatever is called afterwards.                     *)
WriteOnce ==
    /\ [](ready <=> slot # Absent)
    /\ [](ready => slot.kind \in {"value", "failure"})
    /\ [][ready => (ready' /\ slot' = slot)]_vars

WriteOnceWitness ==
    /\ ready
    /\ nSet >= 2
    /\ \E h \in Handles : handle[h] = "dead"
    /\ rpc = "consumed"

(* C17: wait() and get() return only from a ready state; while the state   *)
(* is not ready a thread inside wait() or get() cannot leave it.           *)
ReturnOnlyWhenReady ==
    /\ [][(rpc \in {"inWait", "inGet"} /\ rpc' # rpc) => ready]_vars
    /\ []((rpc \in {"inWait", "inGet"} /\ ~ready) => ~ENABLED (WaitReturn \/ GetReturn))
    /\ []((waited \/ rpc = "consumed") => ready)

ReturnOnlyWhenReadyWitness ==
    /\ waited
    /\ rpc = "consumed"
    /\ firstWrite # NoWrite

(***************************************************************************)
(* Properties of a deferred call read from several threads                 *)
(***************************************************************************)

NoLockAcrossTask ==
    /\ \A w \in WorkerIds : wpc[w] \in {"dequeued", "running"} => mutex_ # w
    /\ \A w \in WorkerIds : mutex_ = w => wpc[w] = "locked"
    /\ mutex_ = Main => cpc = "push"
    /\ (cpc = "lock" /\ mutex_ = Unlocked) => ENABLED enqueue_lock

NoLockAcrossTaskWitness ==
    /\ \E w \in WorkerIds : wpc[w] = "running"
    /\ cpc = "push"
    /\ mutex_ = Main

InQueue(t) == \E i \in DOMAIN tasks_ : tasks_[i] = t

AllWaiting == \A w \in WorkerIds : w <= nWorkers => wpc[w] = "waiting"

(* C25: no wake-up is lost: under fair scheduling every task pushed into   *)
(* tasks_ is dequeued, called and completed, for 1..MaxWorkers workers and *)
(* wherever the push falls relative to a worker about to wait; a state     *)
(* with tasks_ non-empty and every worker waiting on cv_ does not last.    *)
NoLostWakeup ==
    /\ \A t \in Tasks : InQueue(t) ~> (deqBy[t] # {} /\ ~InQueue(t))
    /\ \A t \in Tasks : InQueue(t) ~> taskReady[t]
    /\ (tasks_ # << >> /\ AllWaiting) ~> ~AllWaiting

NoLostWakeupWitness ==
    /\ tasks_ # << >>
    /\ AllWaiting
    /\ cpc = "notify"
    /\ nSub >= 2

(***************************************************************************)
(* Properties of the lifetime of the shared state                          *)
(***************************************************************************)

LiveCopies == {r \in Readers : spc[r] \notin {"none", "destroyed"}}

(* handles that refer to the shared state: an owning promise, the future   *)
(* until it is destroyed or turned into a shared_future, each live copy    *)
Refs ==
    Cardinality(Owners)
      + (IF rpc \in {"idle", "inWait", "inGet", "consumed"} THEN 1 ELSE 0)
      + Cardinality(LiveCopies)

(* C26: the shared state is destroyed exactly when no handle refers to it  *)
(* any more, never while a promise, a future or a shared_future copy still *)
(* does, and at most once; the count of references equals the number of    *)
(* such handles, and with the promise gone a get() on a ready state still  *)
(* returns the stored result.                                              *)
SharedStateLifetime ==
    /\ nFree <= 1
    /\ nFree = 1 <=> Refs = 0
    /\ refcnt = Refs
    /\ (rpc = "inGet" /\ ready /\ Owners = {}) => (nFree = 0 /\ ENABLED GetReturn)
    /\ (rpc = "consumed" /\ firstWrite # NoWrite) => got = firstWrite.out
    /\ \A r \in Readers : \A i \in DOMAIN sgot[r] : sgot[r][i] = slot

SharedStateLifetimeWitness ==
    /\ nFree = 1
    /\ Owners = {}
    /\ \A r \in Readers : spc[r] = "destroyed" /\ Len(sgot[r]) >= 1
    /\ firstWrite # NoWrite

(***************************************************************************)
(* Properties of shutdown                                                  *)
(***************************************************************************)

(* C24: after shutdown() in draining mode every item submitted before it   *)
(* is eventually executed, every worker eventually leaves its loop, no     *)
(* worker stays blocked in the condition wait, and shutdown() returns only *)
(* after all workers have terminated.                                      *)
ShutdownDrainsAndJoins ==
    /\ \A t \in Tasks : (stop /\ InQueue(t)) ~> taskReady[t]
    /\ \A w \in WorkerIds :
          /\ (stop /\ w <= nWorkers) ~> (wpc[w] = "exited")
          /\ (stop /\ wpc[w] = "waiting") ~> (wpc[w] # "waiting")
    /\ [](cpc = "joined" => \A w \in WorkerIds : w <= nWorkers => wpc[w] = "exited")
    /\ stop ~> (cpc = "joined")

(***************************************************************************)
(* Properties of tasks that start tasks                                    *)
(***************************************************************************)

(* a worker blocked on the future of a task that is still in the queue *)
BlockedOnQueued(w) ==
    /\ wpc[w] = "nget"
    /\ InQueue(child[cur[w]])

AllBlockedOnQueued == \A w \in WorkerIds : w <= nWorkers => BlockedOnQueued(w)

====
